---- MODULE Spec2Model ----
(***************************************************************************)
(* powercache: two generic in-memory caches behind one sync.RWMutex each.  *)
(*   package lru  (Recency Store): entries kept in a doubly linked list,   *)
(*                every hit moves the entry to the front.                  *)
(*   package ttl  (TTL Store): a map from key to (value, expireAt).        *)
(* A thread's call is a sequence of steps: lock acquisition, the body run  *)
(* under the lock, the release.  Bodies run under the exclusive lock are   *)
(* one step each (nothing can interleave with them); the body of the       *)
(* Recency Store's unsafeGet also runs under the shared lock, where other  *)
(* readers do interleave, so its MoveToFront is taken one pointer          *)
(* assignment at a time.                                                   *)
(***************************************************************************)
EXTENDS Integers, Sequences, FiniteSets, TLC

\* ---------------------------------------------------------------- bounds
MaxNodes == 4
MaxOps == 3
MaxTime == 2
RaceThreads == 3
MaxSeqOps == 4
MaxGetsOps == 5
MaxDelOps == 4
MaxNestOps == 3

Keys == {"a", "b", "c"}
Values == {1, 2, 3}
GenValues == {1, 2}
TTLs == {-1, 0, 1}
TtlKeys == {"a", "b"}
RaceKey == "a"
RaceValue == 1

Threads == {1, 2}
Nodes == 1..MaxNodes
Root == 0
Nil == -1
NoKey == "-"
Zero == 0
NoThread == 0
Slots == Nodes \cup {Root}

VARIABLES
    kind,       \* which store this instance is: "lru" or "ttl"
    entries,    \* lru: c.entries, the linked list (next/prev/inl links, key/val payload)
    data,       \* ttl: c.data, key -> <<value, expireAt>> or <<>> when absent
    ttl,        \* ttl: c.ttl
    now,        \* time.Now()
    writer,     \* c.m: the thread holding the exclusive lock, or NoThread
    readers,    \* c.m: the threads holding the shared lock
    pc,         \* each thread's position in its current call
    op,         \* each thread's current call: name, key, value, entry handle
    ret,        \* each thread's last returned (value, ok/err)
    calls,      \* per key, how many times a counting producer was invoked
    written,    \* per key, <<value, time>> of the last unsafeSet, or <<>> when none or deleted since
    left,       \* how many calls may still be started
    trace       \* the calls returned so far with their results, when the run records them

vars == <<kind, entries, data, ttl, now, writer, readers, pc, op, ret, calls, written, left, trace>>

\* ------------------------------------------------- internal/container/list
\* The list container is not among the source files; it is modelled from its
\* contract (front insert, removal and move-to-front given an element) as the
\* sentinel ring that the calls of lru.Cache (Front, Next, MoveToFront,
\* InsertBefore, Remove, Element.Value) belong to.
ListNew ==
    [next |-> [n \in Slots |-> IF n = Root THEN Root ELSE Nil],
     prev |-> [n \in Slots |-> IF n = Root THEN Root ELSE Nil],
     inl  |-> [n \in Nodes |-> FALSE],
     key  |-> [n \in Nodes |-> NoKey],
     val  |-> [n \in Nodes |-> Zero]]

Front(L) == IF L.next[Root] = Root THEN Nil ELSE L.next[Root]

ElemNext(L, e) == IF L.inl[e] /\ L.next[e] # Root THEN L.next[e] ELSE Nil

RECURSIVE WalkFrom(_, _, _)
WalkFrom(L, cur, acc) ==
    IF cur = Nil \/ cur \in {acc[i] : i \in 1..Len(acc)}
    THEN acc
    ELSE WalkFrom(L, ElemNext(L, cur), Append(acc, cur))

\* The elements a front-to-back traversal visits, each once.
Walk(L) == WalkFrom(L, Front(L), <<>>)

\* the entries front to back, each as <<key, value>>
WalkPairs(L) == [i \in 1..Len(Walk(L)) |-> <<L.key[Walk(L)[i]], L.val[Walk(L)[i]]>>]
\* the entries a traversal finds, as a set
Pairs(L) == {WalkPairs(L)[i] : i \in 1..Len(WalkPairs(L))}

\* A traversal that never reaches the end of the list.
Cyclic(L) ==
    LET w == Walk(L)
    IN  Len(w) > 0 /\ ElemNext(L, w[Len(w)]) # Nil

\* e.prev.next = e.next
Mv1(L, e) == [L EXCEPT !.next[L.prev[e]] = L.next[e]]
\* e.next.prev = e.prev
Mv2(L, e) == [L EXCEPT !.prev[L.next[e]] = L.prev[e]]
\* e.prev = at (the root)
Mv3(L, e) == [L EXCEPT !.prev[e] = Root]
\* e.next = at.next
Mv4(L, e) == [L EXCEPT !.next[e] = L.next[Root]]
\* e.prev.next = e
Mv5(L, e) == [L EXCEPT !.next[L.prev[e]] = e]
\* e.next.prev = e
Mv6(L, e) == [L EXCEPT !.prev[L.next[e]] = e]

\* MoveToFront returns at once for an element that is not in the list or is
\* already the front.
MoveIsNoop(L, e) == ~L.inl[e] \/ L.next[Root] = e

MoveToFront(L, e) ==
    IF MoveIsNoop(L, e) THEN L
    ELSE Mv6(Mv5(Mv4(Mv3(Mv2(Mv1(L, e), e), e), e), e), e)

\* A node no pointer refers to can be handed out for a new element.
Unreferenced(L, n) ==
    /\ ~L.inl[n]
    /\ \A s \in Slots : L.next[s] # n /\ L.prev[s] # n

FreeNodes(L) == {n \in Nodes : Unreferenced(L, n)}

\* Which free node a new element gets is the allocator's choice: the key's own
\* slot while it is free, else the lowest free one.
KeySlot(k) == CASE k = "a" -> 1 [] k = "b" -> 2 [] OTHER -> 3

NewNode(L, k) ==
    IF KeySlot(k) \in FreeNodes(L) THEN KeySlot(k)
    ELSE CHOOSE n \in FreeNodes(L) : \A m \in FreeNodes(L) : n <= m

\* insert(e, at): e.prev = at; e.next = at.next; e.prev.next = e; e.next.prev = e
InsertAfter(L, k, v, at) ==
    LET e  == NewNode(L, k)
        L1 == [L EXCEPT !.key[e] = k, !.val[e] = v, !.inl[e] = TRUE,
                        !.prev[e] = at, !.next[e] = L.next[at]]
        L2 == [L1 EXCEPT !.next[at] = e]
    IN  [L2 EXCEPT !.prev[L1.next[e]] = e]

\* InsertBefore(v, mark): the new element goes before mark; with no mark (the
\* list is empty) it becomes the front.  A mark that is not in the list
\* inserts nothing.
InsertBefore(L, k, v, mark) ==
    IF mark = Nil THEN InsertAfter(L, k, v, Root)
    ELSE IF ~L.inl[mark] THEN L
    ELSE InsertAfter(L, k, v, L.prev[mark])

\* An element that is out of the list and that no pointer refers to is
\* garbage: its payload is gone.
Collect(L) ==
    [L EXCEPT !.key = [n \in Nodes |-> IF Unreferenced(L, n) THEN NoKey ELSE L.key[n]],
              !.val = [n \in Nodes |-> IF Unreferenced(L, n) THEN Zero ELSE L.val[n]],
              !.next = [s \in Slots |-> IF s # Root /\ Unreferenced(L, s) THEN Nil ELSE L.next[s]],
              !.prev = [s \in Slots |-> IF s # Root /\ Unreferenced(L, s) THEN Nil ELSE L.prev[s]]]

\* Remove(e): unlink e and clear its links.
Remove(L, e) ==
    IF ~L.inl[e] THEN L
    ELSE LET L1 == [L EXCEPT !.next[L.prev[e]] = L.next[e]]
             L2 == [L1 EXCEPT !.prev[L1.next[e]] = L1.prev[e]]
         IN  Collect([L2 EXCEPT !.next[e] = Nil, !.prev[e] = Nil, !.inl[e] = FALSE])

\* ------------------------------------------------------------ package lru
\* findEntry: the first element, front to back, whose key is key; Nil when
\* the traversal ends without one.
findEntry(L, k) ==
    LET w    == Walk(L)
        hits == {i \in 1..Len(w) : L.key[w[i]] = k}
    IN  IF hits = {} THEN Nil
        ELSE w[CHOOSE i \in hits : \A j \in hits : i <= j]

\* findEntry's loop never ends: the key is not on a list whose links form a cycle.
findDiverges(L, k) == findEntry(L, k) = Nil /\ Cyclic(L)

\* unsafeGet, run in one piece: (list after, value, found).
unsafeGet(L, k) ==
    LET e == findEntry(L, k)
    IN  IF Front(L) = Nil \/ e = Nil
        THEN [list |-> L, val |-> Zero, ok |-> FALSE]
        ELSE [list |-> MoveToFront(L, e), val |-> L.val[e], ok |-> TRUE]

\* unsafeSet without the scan for an existing entry: always a new element
unsafeSetAlwaysInserts(L, k, v) == InsertBefore(L, k, v, Front(L))

\* unsafeSet putting a new element at the back
unsafeSetAtBack(L, k, v) ==
    LET e == findEntry(L, k)
    IN  IF e # Nil
        THEN MoveToFront([L EXCEPT !.val[e] = v], e)
        ELSE InsertAfter(L, k, v, L.prev[Root])

unsafeSet(L, k, v) ==
    LET e == findEntry(L, k)
    IN  IF e # Nil
        THEN MoveToFront([L EXCEPT !.val[e] = v], e)
        ELSE InsertBefore(L, k, v, Front(L))

\* --------------------------------------------------------------- threads
NoOp ==
    [name |-> "none", key |-> NoKey, val |-> Zero, e |-> Nil, todo |-> 0, seen |-> {},
     had |-> {}]
NoRet == [val |-> Zero, ok |-> FALSE, set |-> FALSE]
Result(v, ok) == [val |-> v, ok |-> ok, set |-> TRUE]
Call(name, k, v, n) ==
    [name |-> name, key |-> k, val |-> v, e |-> Nil, todo |-> n, seen |-> {},
     had |-> {}]

Off == <<"off">>
Record(tr, o, r) ==
    IF tr = Off THEN tr ELSE Append(tr, <<o.name, o.key, o.val, r.val, r.ok>>)

\* Calls are taken by interchangeable idle threads: the lowest idle one starts the next.
CanStart(t) ==
    /\ pc[t] = "idle" /\ left > 0
    /\ \A u \in DOMAIN pc : u < t => pc[u] # "idle"
\* RLock that does not wait for the writer to release
RLockIgnoresWriter == TRUE

RLockFree == writer = NoThread
\* Lock that does not wait for another writer to release
LockIgnoresWriter == readers = {}

LockFree == writer = NoThread /\ readers = {}

Start(t, o, p) ==
    /\ pc' = [pc EXCEPT ![t] = p]
    /\ op' = [op EXCEPT ![t] = o]
    /\ ret' = [ret EXCEPT ![t] = NoRet]
    /\ left' = left - 1

\* Get: c.m.RLock()
LruGet(t, k) ==
    /\ kind = "lru" /\ CanStart(t) /\ RLockFree
    /\ readers' = readers \cup {t}
    /\ Start(t, Call("Get", k, Zero, 0), "find")
    /\ UNCHANGED <<kind, entries, data, ttl, now, writer, calls, written, trace>>

\* Do: the fast path is a call of Get
LruDo(t, k) ==
    /\ kind = "lru" /\ CanStart(t) /\ RLockFree
    /\ readers' = readers \cup {t}
    /\ Start(t, Call("Do", k, Zero, 0), "find")
    /\ UNCHANGED <<kind, entries, data, ttl, now, writer, calls, written, trace>>

\* unsafeGet under the shared lock, up to the first assignment of MoveToFront;
\* op[t].had keeps the entries the list had when the element was found
LruFind(t) ==
    /\ kind = "lru" /\ pc[t] = "find" /\ t \in readers
    /\ LET k == op[t].key
           e == findEntry(entries, k)
       IN  IF Front(entries) # Nil /\ findDiverges(entries, k)
           THEN pc' = [pc EXCEPT ![t] = "hang"] /\ UNCHANGED <<op, ret>>
           ELSE IF Front(entries) = Nil \/ e = Nil
           THEN /\ pc' = [pc EXCEPT ![t] = "runlock"]
                /\ ret' = [ret EXCEPT ![t] = Result(Zero, FALSE)]
                /\ UNCHANGED op
           ELSE IF MoveIsNoop(entries, e)
           THEN /\ pc' = [pc EXCEPT ![t] = "runlock"]
                /\ ret' = [ret EXCEPT ![t] = Result(entries.val[e], TRUE)]
                /\ UNCHANGED op
           ELSE /\ pc' = [pc EXCEPT ![t] = "mv1"]
                /\ op' = [op EXCEPT ![t].e = e, ![t].had = Pairs(entries)]
                /\ UNCHANGED ret
    /\ UNCHANGED <<kind, entries, data, ttl, now, writer, readers, calls, written, left, trace>>

MoveStep(L, e, p) ==
    CASE p = "mv1" -> Mv1(L, e)
      [] p = "mv2" -> Mv2(L, e)
      [] p = "mv3" -> Mv3(L, e)
      [] p = "mv4" -> Mv4(L, e)
      [] p = "mv5" -> Mv5(L, e)
      [] p = "mv6" -> Mv6(L, e)

AfterStep(p) ==
    CASE p = "mv1" -> "mv2"
      [] p = "mv2" -> "mv3"
      [] p = "mv3" -> "mv4"
      [] p = "mv4" -> "mv5"
      [] p = "mv5" -> "mv6"
      [] p = "mv6" -> "runlock"

\* unsafeGet under the shared lock: one assignment of c.entries.MoveToFront(entry);
\* after the last, return entry.Value.value, true
LruMove(t) ==
    /\ kind = "lru" /\ pc[t] \in {"mv1", "mv2", "mv3", "mv4", "mv5", "mv6"} /\ t \in readers
    /\ entries' = MoveStep(entries, op[t].e, pc[t])
    /\ pc' = [pc EXCEPT ![t] = AfterStep(pc[t])]
    /\ ret' = IF pc[t] = "mv6"
              THEN [ret EXCEPT ![t] = Result(entries.val[op[t].e], TRUE)]
              ELSE ret
    /\ UNCHANGED <<kind, data, ttl, now, writer, readers, op, calls, written, left, trace>>

\* Get returns: the deferred c.m.RUnlock().  A Do whose Get missed goes on to c.m.Lock().
RUnlock(t) ==
    /\ pc[t] = "runlock" /\ t \in readers
    /\ readers' = readers \ {t}
    /\ IF op[t].name = "Get" \/ ret[t].ok
       THEN /\ pc' = [pc EXCEPT ![t] = "idle"]
            /\ op' = [op EXCEPT ![t] = NoOp]
            /\ trace' = Record(trace, op[t], ret[t])
            /\ ret' = [ret EXCEPT ![t] = NoRet]
       ELSE /\ pc' = [pc EXCEPT ![t] = "lock"]
            /\ ret' = [ret EXCEPT ![t] = NoRet]
            /\ UNCHANGED <<op, trace>>
    /\ UNCHANGED <<kind, entries, data, ttl, now, writer, calls, written, left>>

\* Do: c.m.Lock()
DoLock(t) ==
    /\ pc[t] = "lock" /\ LockFree
    /\ writer' = t
    /\ pc' = [pc EXCEPT ![t] = "recheck"]
    /\ UNCHANGED <<kind, entries, data, ttl, now, readers, op, ret, calls, written, left, trace>>

\* Do without the second check: the producer is called whenever the fast path missed
LruDoRecheckSkipped(t) ==
    /\ kind = "lru" /\ pc[t] = "recheck" /\ writer = t
    /\ pc' = [pc EXCEPT ![t] = "fn"]
    /\ UNCHANGED <<kind, entries, data, ttl, now, writer, readers, op, ret, calls, written, left, trace>>

\* Do: the second check, c.unsafeGet(key) under the exclusive lock
LruDoRecheck(t) ==
    /\ kind = "lru" /\ pc[t] = "recheck" /\ writer = t
    /\ LET g == unsafeGet(entries, op[t].key)
       IN  IF Front(entries) # Nil /\ findDiverges(entries, op[t].key)
           THEN pc' = [pc EXCEPT ![t] = "hang"] /\ UNCHANGED <<entries, ret>>
           ELSE IF g.ok
           THEN /\ entries' = g.list
                /\ ret' = [ret EXCEPT ![t] = Result(g.val, TRUE)]
                /\ pc' = [pc EXCEPT ![t] = "unlock"]
           ELSE /\ pc' = [pc EXCEPT ![t] = "fn"]
                /\ UNCHANGED <<entries, ret>>
    /\ UNCHANGED <<kind, data, ttl, now, writer, readers, op, calls, written, left, trace>>

\* Do: fn() is called
DoCall(t) ==
    /\ pc[t] = "fn" /\ writer = t
    /\ calls' = IF trace = Off THEN calls ELSE [calls EXCEPT ![op[t].key] = @ + 1]
    /\ pc' = [pc EXCEPT ![t] = "infn"]
    /\ UNCHANGED <<kind, entries, data, ttl, now, writer, readers, op, ret, written, left, trace>>

\* Do storing what fn returned even when fn failed
LruDoReturnStoresOnError(t, v, fails) ==
    /\ kind = "lru" /\ pc[t] = "infn" /\ writer = t
    /\ ~findDiverges(entries, op[t].key)
    /\ FreeNodes(entries) # {} \/ findEntry(entries, op[t].key) # Nil
    /\ entries' = unsafeSet(entries, op[t].key, v)
    /\ written' = IF fails THEN written ELSE [written EXCEPT ![op[t].key] = <<v, now>>]
    /\ ret' = [ret EXCEPT ![t] = Result(v, ~fails)]
    /\ pc' = [pc EXCEPT ![t] = "unlock"]
    /\ UNCHANGED <<kind, data, ttl, now, writer, readers, op, calls, left, trace>>

\* Do: fn() returns (v, err); on an error return at once, else c.unsafeSet(key, value)
LruDoReturn(t, v, fails) ==
    /\ kind = "lru" /\ pc[t] = "infn" /\ writer = t
    /\ IF fails
       THEN /\ ret' = [ret EXCEPT ![t] = Result(v, FALSE)]
            /\ pc' = [pc EXCEPT ![t] = "unlock"]
            /\ UNCHANGED <<entries, written>>
       ELSE IF findDiverges(entries, op[t].key)
       THEN pc' = [pc EXCEPT ![t] = "hang"] /\ UNCHANGED <<entries, ret, written>>
       ELSE /\ FreeNodes(entries) # {} \/ findEntry(entries, op[t].key) # Nil
            /\ entries' = unsafeSet(entries, op[t].key, v)
            /\ written' = [written EXCEPT ![op[t].key] = <<v, now>>]
            /\ ret' = [ret EXCEPT ![t] = Result(v, TRUE)]
            /\ pc' = [pc EXCEPT ![t] = "unlock"]
    /\ UNCHANGED <<kind, data, ttl, now, writer, readers, op, calls, left, trace>>

\* Set: c.m.Lock()
LruSet(t, k, v) ==
    /\ kind = "lru" /\ CanStart(t) /\ LockFree
    /\ writer' = t
    /\ Start(t, Call("Set", k, v, 0), "set")
    /\ UNCHANGED <<kind, entries, data, ttl, now, readers, calls, written, trace>>

\* Set: c.unsafeSet(key, value)
LruSetBody(t) ==
    /\ kind = "lru" /\ pc[t] = "set" /\ writer = t
    /\ IF findDiverges(entries, op[t].key)
       THEN pc' = [pc EXCEPT ![t] = "hang"] /\ UNCHANGED <<entries, written, op>>
       ELSE /\ FreeNodes(entries) # {} \/ findEntry(entries, op[t].key) # Nil
            /\ entries' = unsafeSet(entries, op[t].key, op[t].val)
            /\ written' = [written EXCEPT ![op[t].key] = <<op[t].val, now>>]
            /\ op' = [op EXCEPT ![t].e = findEntry(entries, op[t].key)]
            /\ pc' = [pc EXCEPT ![t] = "unlock"]
    /\ UNCHANGED <<kind, data, ttl, now, writer, readers, ret, calls, left, trace>>

\* Delete: c.m.Lock()
LruDelete(t, k) ==
    /\ kind = "lru" /\ CanStart(t) /\ LockFree
    /\ writer' = t
    /\ Start(t, Call("Delete", k, Zero, 0), "delete")
    /\ UNCHANGED <<kind, entries, data, ttl, now, readers, calls, written, trace>>

\* Delete: if entry := c.findEntry(key); entry != nil { c.entries.Remove(entry) }
LruDeleteBody(t) ==
    /\ kind = "lru" /\ pc[t] = "delete" /\ writer = t
    /\ LET e == findEntry(entries, op[t].key)
       IN  IF findDiverges(entries, op[t].key)
           THEN pc' = [pc EXCEPT ![t] = "hang"] /\ UNCHANGED <<entries, written>>
           ELSE /\ entries' = IF e = Nil THEN entries ELSE Remove(entries, e)
                /\ written' = [written EXCEPT ![op[t].key] = <<>>]
                /\ pc' = [pc EXCEPT ![t] = "unlock"]
    /\ UNCHANGED <<kind, data, ttl, now, writer, readers, op, ret, calls, left, trace>>

\* SetFromIter: c.m.Lock()
LruSetFromIter(t, n) ==
    /\ kind = "lru" /\ CanStart(t) /\ LockFree
    /\ writer' = t
    /\ Start(t, Call("SetFromIter", NoKey, Zero, n), "iter")
    /\ UNCHANGED <<kind, entries, data, ttl, now, readers, calls, written, trace>>

\* SetFromMap: c.SetFromIter(maps.All(data)); the map is ranged over in some order
LruSetFromMap(t, n) ==
    /\ kind = "lru" /\ CanStart(t) /\ LockFree
    /\ writer' = t
    /\ Start(t, Call("SetFromMap", NoKey, Zero, n), "iter")
    /\ UNCHANGED <<kind, entries, data, ttl, now, readers, calls, written, trace>>

\* the sequence yields (k, v) next: a map yields no key twice
Yields(o, k) == o.todo > 0 /\ (o.name = "SetFromMap" => k \notin o.seen)
\* the call after the pair was taken: one pair less to come, k among the keys yielded
Yielded(o, k) == [o EXCEPT !.todo = @ - 1, !.seen = @ \cup {k}]

\* SetFromIter: one round of for k, v := range data { c.unsafeSet(k, v) }
LruSetFromIterStep(t, k, v) ==
    /\ kind = "lru" /\ pc[t] = "iter" /\ writer = t /\ Yields(op[t], k)
    /\ IF findDiverges(entries, k)
       THEN pc' = [pc EXCEPT ![t] = "hang"] /\ UNCHANGED <<entries, written, op>>
       ELSE /\ FreeNodes(entries) # {} \/ findEntry(entries, k) # Nil
            /\ entries' = unsafeSet(entries, k, v)
            /\ written' = [written EXCEPT ![k] = <<v, now>>]
            /\ op' = [op EXCEPT ![t] = Yielded(op[t], k)]
            /\ UNCHANGED pc
    /\ UNCHANGED <<kind, data, ttl, now, writer, readers, ret, calls, left, trace>>

\* SetFromIter: the range loop ends
IterEnd(t) ==
    /\ pc[t] = "iter" /\ writer = t /\ op[t].todo = 0
    /\ pc' = [pc EXCEPT ![t] = "unlock"]
    /\ UNCHANGED <<kind, entries, data, ttl, now, writer, readers, op, ret, calls, written, left, trace>>

\* the deferred c.m.Unlock(); the call returns
Unlock(t) ==
    /\ pc[t] = "unlock" /\ writer = t
    /\ writer' = NoThread
    /\ pc' = [pc EXCEPT ![t] = "idle"]
    /\ op' = [op EXCEPT ![t] = NoOp]
    /\ trace' = Record(trace, op[t], ret[t])
    /\ ret' = [ret EXCEPT ![t] = NoRet]
    /\ UNCHANGED <<kind, entries, data, ttl, now, readers, calls, written, left>>

\* ------------------------------------------------------------ package ttl
NoEntry == <<>>
DataNew == [k \in TtlKeys |-> NoEntry]

\* After taken as "not before": an entry expires at its expireAt already
AfterOrAt(time, expireAt) == time >= expireAt

\* time.Now().After(entry.expireAt)
After(time, expireAt) == time > expireAt

\* unsafeGet: (value, found)
TtlUnsafeGet(D, k, time) ==
    IF D[k] = NoEntry THEN [val |-> Zero, ok |-> FALSE]
    ELSE IF After(time, D[k][2]) THEN [val |-> Zero, ok |-> FALSE]
    ELSE [val |-> D[k][1], ok |-> TRUE]

\* unsafeSet treating a ttl of zero or less as "never expires"
TtlUnsafeSetNoExpiry(D, k, v, time, d) ==
    [D EXCEPT ![k] = <<v, IF d <= 0 THEN MaxTime + 1 ELSE time + d>>]

\* unsafeSet that keeps the expireAt of an entry already there
TtlUnsafeSetKeepsExpiry(D, k, v, time, d) ==
    [D EXCEPT ![k] = <<v, IF D[k] = NoEntry THEN time + d ELSE D[k][2]>>]

\* unsafeSet: c.data[key] = cacheEntry[V]{value, time.Now().Add(c.ttl)}
TtlUnsafeSet(D, k, v, time, d) == [D EXCEPT ![k] = <<v, time + d>>]

\* Get: c.m.RLock()
TtlGet(t, k) ==
    /\ kind = "ttl" /\ CanStart(t) /\ RLockFree
    /\ readers' = readers \cup {t}
    /\ Start(t, Call("Get", k, Zero, 0), "get")
    /\ UNCHANGED <<kind, entries, data, ttl, now, writer, calls, written, trace>>

\* Do: the fast path is a call of Get
TtlDo(t, k) ==
    /\ kind = "ttl" /\ CanStart(t) /\ RLockFree
    /\ readers' = readers \cup {t}
    /\ Start(t, Call("Do", k, Zero, 0), "get")
    /\ UNCHANGED <<kind, entries, data, ttl, now, writer, calls, written, trace>>

\* Get that drops the entry it finds expired
TtlGetBodyEvicts(t) ==
    /\ kind = "ttl" /\ pc[t] = "get" /\ t \in readers
    /\ LET k == op[t].key
           g == TtlUnsafeGet(data, k, now)
       IN  /\ ret' = [ret EXCEPT ![t] = Result(g.val, g.ok)]
           /\ data' = IF data[k] # NoEntry /\ After(now, data[k][2])
                      THEN [data EXCEPT ![k] = NoEntry]
                      ELSE data
    /\ pc' = [pc EXCEPT ![t] = "runlock"]
    /\ UNCHANGED <<kind, entries, ttl, now, writer, readers, op, calls, written, left, trace>>

\* Get: return c.unsafeGet(key), under the shared lock
TtlGetBody(t) ==
    /\ kind = "ttl" /\ pc[t] = "get" /\ t \in readers
    /\ LET g == TtlUnsafeGet(data, op[t].key, now)
       IN  ret' = [ret EXCEPT ![t] = Result(g.val, g.ok)]
    /\ pc' = [pc EXCEPT ![t] = "runlock"]
    /\ UNCHANGED <<kind, entries, data, ttl, now, writer, readers, op, calls, written, left, trace>>

\* Do without the second check: the producer is called whenever the fast path missed
TtlDoRecheckSkipped(t) ==
    /\ kind = "ttl" /\ pc[t] = "recheck" /\ writer = t
    /\ pc' = [pc EXCEPT ![t] = "fn"]
    /\ UNCHANGED <<kind, entries, data, ttl, now, writer, readers, op, ret, calls, written, left, trace>>

\* Do: the second check, c.unsafeGet(key) under the exclusive lock
TtlDoRecheck(t) ==
    /\ kind = "ttl" /\ pc[t] = "recheck" /\ writer = t
    /\ LET g == TtlUnsafeGet(data, op[t].key, now)
       IN  IF g.ok
           THEN /\ ret' = [ret EXCEPT ![t] = Result(g.val, TRUE)]
                /\ pc' = [pc EXCEPT ![t] = "unlock"]
           ELSE /\ pc' = [pc EXCEPT ![t] = "fn"]
                /\ UNCHANGED ret
    /\ UNCHANGED <<kind, entries, data, ttl, now, writer, readers, op, calls, written, left, trace>>

\* Do: fn() returns (v, err); on an error return at once, else c.unsafeSet(key, value)
TtlDoReturn(t, v, fails) ==
    /\ kind = "ttl" /\ pc[t] = "infn" /\ writer = t
    /\ IF fails
       THEN /\ ret' = [ret EXCEPT ![t] = Result(v, FALSE)]
            /\ UNCHANGED <<data, written>>
       ELSE /\ data' = TtlUnsafeSet(data, op[t].key, v, now, ttl)
            /\ written' = [written EXCEPT ![op[t].key] = <<v, now>>]
            /\ ret' = [ret EXCEPT ![t] = Result(v, TRUE)]
    /\ pc' = [pc EXCEPT ![t] = "unlock"]
    /\ UNCHANGED <<kind, entries, ttl, now, writer, readers, op, calls, left, trace>>

\* Set: c.m.Lock()
TtlSet(t, k, v) ==
    /\ kind = "ttl" /\ CanStart(t) /\ LockFree
    /\ writer' = t
    /\ Start(t, Call("Set", k, v, 0), "set")
    /\ UNCHANGED <<kind, entries, data, ttl, now, readers, calls, written, trace>>

\* what the map held for k before a write: nothing, an expired entry, a live one
WasExpired == 0
WasLive == 1
Before(D, k, time) ==
    IF D[k] = NoEntry THEN Nil
    ELSE IF After(time, D[k][2]) THEN WasExpired
    ELSE WasLive

\* Set: c.unsafeSet(key, value)
TtlSetBody(t) ==
    /\ kind = "ttl" /\ pc[t] = "set" /\ writer = t
    /\ data' = TtlUnsafeSet(data, op[t].key, op[t].val, now, ttl)
    /\ written' = [written EXCEPT ![op[t].key] = <<op[t].val, now>>]
    /\ op' = [op EXCEPT ![t].e = Before(data, op[t].key, now)]
    /\ pc' = [pc EXCEPT ![t] = "unlock"]
    /\ UNCHANGED <<kind, entries, ttl, now, writer, readers, ret, calls, left, trace>>

\* Delete: c.m.Lock()
TtlDelete(t, k) ==
    /\ kind = "ttl" /\ CanStart(t) /\ LockFree
    /\ writer' = t
    /\ Start(t, Call("Delete", k, Zero, 0), "delete")
    /\ UNCHANGED <<kind, entries, data, ttl, now, readers, calls, written, trace>>

\* Delete: delete(c.data, key)
TtlDeleteBody(t) ==
    /\ kind = "ttl" /\ pc[t] = "delete" /\ writer = t
    /\ data' = [data EXCEPT ![op[t].key] = NoEntry]
    /\ written' = [written EXCEPT ![op[t].key] = <<>>]
    /\ pc' = [pc EXCEPT ![t] = "unlock"]
    /\ UNCHANGED <<kind, entries, ttl, now, writer, readers, op, ret, calls, left, trace>>

\* SetFromIter: c.m.Lock()
TtlSetFromIter(t, n) ==
    /\ kind = "ttl" /\ CanStart(t) /\ LockFree
    /\ writer' = t
    /\ Start(t, Call("SetFromIter", NoKey, Zero, n), "iter")
    /\ UNCHANGED <<kind, entries, data, ttl, now, readers, calls, written, trace>>

\* SetFromMap: c.SetFromIter(maps.All(data)); the map is ranged over in some order
TtlSetFromMap(t, n) ==
    /\ kind = "ttl" /\ CanStart(t) /\ LockFree
    /\ writer' = t
    /\ Start(t, Call("SetFromMap", NoKey, Zero, n), "iter")
    /\ UNCHANGED <<kind, entries, data, ttl, now, readers, calls, written, trace>>

\* SetFromIter: one round of for key, value := range data { c.unsafeSet(key, value) }
TtlSetFromIterStep(t, k, v) ==
    /\ kind = "ttl" /\ pc[t] = "iter" /\ writer = t /\ Yields(op[t], k)
    /\ data' = TtlUnsafeSet(data, k, v, now, ttl)
    /\ written' = [written EXCEPT ![k] = <<v, now>>]
    /\ op' = [op EXCEPT ![t] = Yielded(op[t], k)]
    /\ UNCHANGED <<kind, entries, ttl, now, writer, readers, pc, ret, calls, left, trace>>

\* the clock moves on
Tick ==
    /\ kind = "ttl" /\ now < MaxTime
    /\ now' = now + 1
    /\ UNCHANGED <<kind, entries, data, ttl, writer, readers, pc, op, ret, calls, written, left, trace>>

\* ------------------------------------------------------- specifications
\* how many pairs a bulk set is called with
BatchSizes == {0, 1, 2}
FnValues == GenValues

InitStore(T, n) ==
    /\ entries = ListNew
    /\ data = DataNew
    /\ now = 0
    /\ writer = NoThread
    /\ readers = {}
    /\ pc = [t \in T |-> "idle"]
    /\ op = [t \in T |-> NoOp]
    /\ ret = [t \in T |-> NoRet]
    /\ calls = [k \in Keys |-> 0]
    /\ written = [k \in Keys |-> <<>>]
    /\ left = n

\* New: an empty list / an empty map with the given ttl
InitLru == kind = "lru" /\ ttl = 0 /\ InitStore(Threads, MaxOps) /\ trace = Off
InitTtl == kind = "ttl" /\ ttl \in TTLs /\ InitStore(Threads, MaxOps) /\ trace = Off

LruNext ==
    \E t \in Threads :
        \/ \E k \in Keys : LruGet(t, k)
        \/ \E k \in Keys : LruDo(t, k)
        \/ \E k \in Keys, v \in GenValues : LruSet(t, k, v)
        \/ \E k \in Keys : LruDelete(t, k)
        \/ \E n \in BatchSizes : LruSetFromIter(t, n)
        \/ \E n \in BatchSizes : LruSetFromMap(t, n)
        \/ LruFind(t)
        \/ LruMove(t)
        \/ RUnlock(t)
        \/ DoLock(t)
        \/ LruDoRecheck(t)
        \/ DoCall(t)
        \/ \E v \in FnValues : LruDoReturn(t, v, FALSE)
        \/ LruDoReturn(t, Zero, TRUE)
        \/ LruSetBody(t)
        \/ LruDeleteBody(t)
        \/ \E k \in Keys, v \in GenValues : LruSetFromIterStep(t, k, v)
        \/ IterEnd(t)
        \/ Unlock(t)

TtlNext ==
    \/ Tick
    \/ \E t \in Threads :
        \/ \E k \in TtlKeys : TtlGet(t, k)
        \/ \E k \in TtlKeys : TtlDo(t, k)
        \/ \E k \in TtlKeys, v \in GenValues : TtlSet(t, k, v)
        \/ \E k \in TtlKeys : TtlDelete(t, k)
        \/ \E n \in BatchSizes : TtlSetFromIter(t, n)
        \/ \E n \in BatchSizes : TtlSetFromMap(t, n)
        \/ TtlGetBody(t)
        \/ RUnlock(t)
        \/ DoLock(t)
        \/ TtlDoRecheck(t)
        \/ DoCall(t)
        \/ \E v \in FnValues : TtlDoReturn(t, v, FALSE)
        \/ TtlDoReturn(t, Zero, TRUE)
        \/ TtlSetBody(t)
        \/ TtlDeleteBody(t)
        \/ \E k \in TtlKeys, v \in GenValues : TtlSetFromIterStep(t, k, v)
        \/ IterEnd(t)
        \/ Unlock(t)

\* any calls by two threads: one store of either kind, then each store alone
Init == InitLru \/ InitTtl
Next == LruNext \/ TtlNext
Spec == Init /\ [][Next]_vars
SpecLru == InitLru /\ [][LruNext]_vars
SpecTtl == InitTtl /\ [][TtlNext]_vars

\* RaceThreads concurrent calls of Do(RaceKey, producer) on a new store; the
\* producer counts its invocations and always returns RaceValue.
RaceProcs == 1..RaceThreads
InitLruRace == kind = "lru" /\ ttl = 0 /\ InitStore(RaceProcs, RaceThreads) /\ trace = <<>>
InitTtlRace == kind = "ttl" /\ ttl \in TTLs /\ InitStore(RaceProcs, RaceThreads) /\ trace = <<>>

LruRaceNext ==
    \E t \in RaceProcs :
        \/ LruDo(t, RaceKey)
        \/ LruFind(t)
        \/ RUnlock(t)
        \/ DoLock(t)
        \/ LruDoRecheck(t)
        \/ DoCall(t)
        \/ LruDoReturn(t, RaceValue, FALSE)
        \/ Unlock(t)

TtlRaceNext ==
    \/ Tick
    \/ \E t \in RaceProcs :
        \/ TtlDo(t, RaceKey)
        \/ TtlGetBody(t)
        \/ RUnlock(t)
        \/ DoLock(t)
        \/ TtlDoRecheck(t)
        \/ DoCall(t)
        \/ TtlDoReturn(t, RaceValue, FALSE)
        \/ Unlock(t)

SpecLruRace == InitLruRace /\ [][LruRaceNext]_vars
SpecTtlRace == InitTtlRace /\ [][TtlRaceNext]_vars

\* One thread calling Set and Get one after the other, the calls and their
\* results recorded.
SeqProcs == {1}
InitSeq == kind = "lru" /\ ttl = 0 /\ InitStore(SeqProcs, MaxSeqOps) /\ trace = <<>>

SeqNext ==
    \E t \in SeqProcs :
        \/ \E k \in Keys : LruGet(t, k)
        \/ \E k \in Keys, v \in Values : LruSet(t, k, v)
        \/ LruFind(t)
        \/ LruMove(t)
        \/ RUnlock(t)
        \/ LruSetBody(t)
        \/ Unlock(t)

SpecSeq == InitSeq /\ [][SeqNext]_vars

\* Two threads calling Set and Get on the Recency Store: enough calls to fill
\* the list and then read it from both threads at once.
InitGets == kind = "lru" /\ ttl = 0 /\ InitStore(Threads, MaxGetsOps) /\ trace = Off

GetsNext ==
    \E t \in Threads :
        \/ \E k \in Keys : LruGet(t, k)
        \/ \E k \in Keys : LruSet(t, k, RaceValue)
        \/ LruFind(t)
        \/ LruMove(t)
        \/ RUnlock(t)
        \/ LruSetBody(t)
        \/ Unlock(t)

SpecGets == InitGets /\ [][GetsNext]_vars

\* Two threads on the Recency Store calling a bulk set, Get, Delete and Do: a
\* list is built, read from both threads at once, and a key is then deleted
\* or asked for with a producer.
InitDel == kind = "lru" /\ ttl = 0 /\ InitStore(Threads, MaxDelOps) /\ trace = Off

DelNext ==
    \E t \in Threads :
        \/ \E k \in Keys : LruGet(t, k)
        \/ \E k \in Keys : LruDelete(t, k)
        \/ \E k \in Keys : LruDo(t, k)
        \/ \E n \in BatchSizes : LruSetFromIter(t, n)
        \/ LruFind(t)
        \/ LruMove(t)
        \/ RUnlock(t)
        \/ DoLock(t)
        \/ LruDoRecheck(t)
        \/ DoCall(t)
        \/ LruDoReturn(t, RaceValue, FALSE)
        \/ LruDeleteBody(t)
        \/ \E k \in Keys : LruSetFromIterStep(t, k, RaceValue)
        \/ IterEnd(t)
        \/ Unlock(t)

SpecDel == InitDel /\ [][DelNext]_vars

\* Scheduling: a thread that can take the next step of its call takes it
\* eventually (the Go scheduler runs every runnable goroutine), and a thread
\* waiting in Lock gets the lock if it is free again and again (sync.RWMutex
\* hands a released lock to its waiters).
LruContinue(t) ==
    \/ LruFind(t)
    \/ LruMove(t)
    \/ RUnlock(t)
    \/ LruSetBody(t)
    \/ Unlock(t)

TtlContinue(t) ==
    \/ TtlGetBody(t)
    \/ RUnlock(t)
    \/ TtlDoRecheck(t)
    \/ DoCall(t)
    \/ \E v \in FnValues : TtlDoReturn(t, v, FALSE)
    \/ TtlDoReturn(t, Zero, TRUE)
    \/ TtlSetBody(t)
    \/ TtlDeleteBody(t)
    \/ \E k \in TtlKeys, v \in GenValues : TtlSetFromIterStep(t, k, v)
    \/ IterEnd(t)
    \/ Unlock(t)

SpecGetsFair == SpecGets /\ \A t \in Threads : WF_vars(LruContinue(t))
SpecTtlFair ==
    SpecTtl /\ \A t \in Threads : WF_vars(TtlContinue(t)) /\ SF_vars(DoLock(t))

\* ------------------------------------------- producers that call the store
\* Calls issued in two steps (the caller arrives at the lock, then takes it),
\* and producers that call an operation of the store their Do runs on.
\* sync.RWMutex keeps no owner, so the goroutine that holds the exclusive lock
\* waits in RLock and Lock like any other.

\* a lock that lets the goroutine holding it in again
RLockReentrant(t) == writer \in {NoThread, t}

\* RLock returns for t
RLockFreeFor(t) == RLockFree

\* Lock returns for t
LockFreeFor(t) == LockFree

\* Get and Do begin with c.m.RLock(), the other operations with c.m.Lock()
Shared(o) == o.name \in {"Get", "Do"}
AtLock(o) == IF Shared(o) THEN "rlock" ELSE "wlock"

\* where the body of the call begins once its lock is taken
Body(o) ==
    CASE Shared(o) -> IF kind = "lru" THEN "find" ELSE "get"
      [] o.name = "Set" -> "set"
      [] o.name = "Delete" -> "delete"
      [] OTHER -> "iter"

\* the calls a caller or a producer makes
TopCalls ==
    {Call(n, k, RaceValue, 0) : n \in {"Get", "Do", "Set", "Delete"}, k \in TtlKeys}
FnCallsOf ==
    TopCalls \cup {Call(n, NoKey, Zero, 1) : n \in {"SetFromIter", "SetFromMap"}}

\* a call is made: the caller arrives at c.m.RLock() or c.m.Lock()
Issue(t, o) ==
    /\ CanStart(t)
    /\ Start(t, o, AtLock(o))
    /\ UNCHANGED <<kind, entries, data, ttl, now, writer, readers, calls, written, trace>>

\* c.m.RLock() returns
RLock(t) ==
    /\ pc[t] = "rlock" /\ RLockFreeFor(t)
    /\ readers' = readers \cup {t}
    /\ pc' = [pc EXCEPT ![t] = Body(op[t])]
    /\ UNCHANGED <<kind, entries, data, ttl, now, writer, op, ret, calls, written, left, trace>>

\* c.m.Lock() returns
Lock(t) ==
    /\ pc[t] = "wlock" /\ LockFreeFor(t)
    /\ writer' = t
    /\ pc' = [pc EXCEPT ![t] = Body(op[t])]
    /\ UNCHANGED <<kind, entries, data, ttl, now, readers, op, ret, calls, written, left, trace>>

\* Do: fn(), running under the exclusive lock of Do, calls an operation of the
\* same store and arrives at its lock; op[t] is the innermost call, the Do
\* below it goes on when that call has returned
FnCalls(t, o) ==
    /\ pc[t] = "infn" /\ writer = t
    /\ pc' = [pc EXCEPT ![t] = AtLock(o)]
    /\ op' = [op EXCEPT ![t] = o]
    /\ UNCHANGED <<kind, entries, data, ttl, now, writer, readers, ret, calls, written, left, trace>>

InitNest ==
    /\ kind \in {"lru", "ttl"} /\ ttl \in TTLs
    /\ InitStore(Threads, MaxNestOps) /\ trace = Off

NestNext ==
    \/ Tick
    \/ \E t \in Threads :
        \/ \E o \in TopCalls : Issue(t, o)
        \/ RLock(t)
        \/ Lock(t)
        \/ LruFind(t)
        \/ LruMove(t)
        \/ TtlGetBody(t)
        \/ RUnlock(t)
        \/ DoLock(t)
        \/ LruDoRecheck(t)
        \/ TtlDoRecheck(t)
        \/ DoCall(t)
        \/ \E o \in FnCallsOf : FnCalls(t, o)
        \/ LruDoReturn(t, RaceValue, FALSE)
        \/ TtlDoReturn(t, RaceValue, FALSE)
        \/ LruSetBody(t)
        \/ TtlSetBody(t)
        \/ LruDeleteBody(t)
        \/ TtlDeleteBody(t)
        \/ Unlock(t)

SpecNest == InitNest /\ [][NestNext]_vars

\* ------------------------------------------------------------- the claims
AllIdle == \A t \in DOMAIN pc : pc[t] = "idle"
Done == AllIdle /\ left = 0
WalkKeys(L) == [i \in 1..Len(Walk(L)) |-> L.key[Walk(L)[i]]]
HasKey(L, k) == \E i \in 1..Len(Walk(L)) : L.key[Walk(L)[i]] = k
AllReturned(n) ==
    /\ Len(trace) = n
    /\ \A i \in 1..Len(trace) : trace[i] = <<"Do", RaceKey, Zero, RaceValue, TRUE>>

\* C1: Recency Store, RaceThreads concurrent Do(k, producer) on a new store,
\* the producer always succeeding with one value: the producer is never
\* invoked twice, and once all calls have returned it was invoked exactly
\* once and every call returned that value with a nil error.
C1_ProducerOnce ==
    /\ calls[RaceKey] <= 1
    /\ Done => calls[RaceKey] = 1 /\ AllReturned(RaceThreads)

\* two calls missed on the fast path; one runs the producer, the other waits for the lock
C1_Witness ==
    /\ kind = "lru"
    /\ \E t, u \in DOMAIN pc : pc[t] = "infn" /\ pc[u] = "lock"

\* C2 as stated: TTL Store, any ttl, the clock free to advance: once all the
\* concurrent Do calls have returned the producer was invoked exactly once and
\* every call returned its value.
C2_ProducerOnceAnyClock ==
    Done => calls[RaceKey] = 1 /\ AllReturned(RaceThreads)

\* C2 amended: the producer is invoked at least once and every call returns
\* its value with a nil error; it is invoked exactly once as long as the clock
\* has advanced by no more than ttl since the store was built, so that the
\* entry stored by the first invocation has not expired at any later check.
C2_ProducerOnceWhileFresh ==
    /\ now <= ttl => calls[RaceKey] <= 1
    /\ Done => calls[RaceKey] >= 1 /\ AllReturned(RaceThreads)
    /\ Done /\ now <= ttl => calls[RaceKey] = 1

\* all calls returned, the clock moved, but by no more than ttl
C2_Witness ==
    /\ kind = "ttl" /\ Done /\ now > 0 /\ now <= ttl
    /\ calls[RaceKey] = 1 /\ AllReturned(RaceThreads)

\* a lookup of k misses in this state
Misses(k) ==
    IF kind = "lru" THEN ~unsafeGet(entries, k).ok
    ELSE ~TtlUnsafeGet(data, k, now).ok

\* C3: both stores: the step in which a Do's producer returns an error leaves
\* the list and the map exactly as they were, the call is about to return the
\* error, and a lookup of the key misses afterwards (so a following Get
\* reports not-found and a following Do calls its producer).
C3_ErrorLeavesNoTrace ==
    [][\A t \in DOMAIN pc :
          (pc[t] = "infn" /\ pc'[t] = "unlock" /\ ~ret'[t].ok)
          => /\ entries' = entries /\ data' = data /\ written' = written
             /\ ret'[t].set /\ op'[t] = op[t]
             /\ Misses(op[t].key)']_vars

\* a Do whose producer failed, on a store that holds other entries
C3_Witness ==
    \E t \in DOMAIN pc :
        /\ pc[t] = "unlock" /\ op[t].name = "Do" /\ ret[t].set /\ ~ret[t].ok
        /\ \E k \in Keys : written[k] # <<>>

\* C4: both stores: every step that changes the list or the map is taken by a
\* thread holding the exclusive lock.
C4_WritesHoldExclusiveLock ==
    [][(entries' # entries \/ data' # data) => writer # NoThread]_vars

\* C5: both stores: front to back the list holds no key twice and the map
\* holds one entry per key, and the value of the entry of a key that was
\* written and not deleted since is the one last written for it by Set, a
\* bulk set or a Do that stored.
C5_OneEntryPerKeyLastWins ==
    /\ \A i, j \in 1..Len(Walk(entries)) :
          i # j => entries.key[Walk(entries)[i]] # entries.key[Walk(entries)[j]]
    /\ \A i \in 1..Len(Walk(entries)) :
          LET e == Walk(entries)[i]
          IN  written[entries.key[e]] # <<>> => written[entries.key[e]][1] = entries.val[e]
    /\ \A k \in DOMAIN data :
          data[k] # NoEntry => written[k] # <<>> /\ written[k][1] = data[k][1]

\* a Set has just overwritten an existing key of a list holding another key too
C5_Witness ==
    \E t \in DOMAIN pc :
        /\ pc[t] = "unlock" /\ op[t].name = "Set" /\ op[t].e # Nil
        /\ Len(Walk(entries)) >= 2

\* the call of t has run its body and touched its key: a Get or Do that hit,
\* a Set, a Do that stored
Touched(t) ==
    \/ pc[t] = "runlock" /\ ret[t].ok
    \/ pc[t] = "unlock" /\ (op[t].name = "Set" \/ (op[t].name = "Do" /\ ret[t].ok))

\* C6: Recency Store: the step that completes a Get or Do hit, a Set or a Do
\* store leaves the entry of its key at the front of the list.
C6_TouchedKeyIsFront ==
    [][\A t \in DOMAIN pc :
          (kind = "lru" /\ ~Touched(t) /\ Touched(t)')
          => Front(entries') # Nil /\ entries'.key[Front(entries')] = op[t].key]_vars

Scenario ==
    << <<"Set", "a", 1, 0, FALSE>>, <<"Set", "b", 2, 0, FALSE>>,
       <<"Get", "a", 0, 1, TRUE>>, <<"Set", "c", 3, 0, FALSE>> >>
CallOf(r) == <<r[1], r[2], r[3]>>

\* the four calls of the scenario have been made in its order, and returned
ScenarioRan ==
    AllIdle /\ Len(trace) = 4 /\ \A i \in 1..4 : CallOf(trace[i]) = CallOf(Scenario[i])

\* C7 as stated: Recency Store: after the calls Set("a",1), Set("b",2),
\* Get("a"), Set("c",3) in sequence on a new store, the Get returned (1, true)
\* and the list reads a, c, b front to back.
C7_ScenarioOrderACB ==
    ScenarioRan => trace = Scenario /\ WalkKeys(entries) = <<"a", "c", "b">>

\* C7 amended: after the same calls the Get returned (1, true) and the list
\* reads c, a, b front to back: the Get moved a to the front and the Set of
\* the new key c then put c in front of it.
C7_ScenarioOrder ==
    ScenarioRan => trace = Scenario /\ WalkKeys(entries) = <<"c", "a", "b">>

C7_Witness == AllIdle /\ trace = Scenario

\* C8: Recency Store: with no call in progress, every key that was set and
\* not deleted since is in the list (only Delete removes an entry).
C8_OnlyDeleteRemoves ==
    (kind = "lru" /\ AllIdle) => \A k \in Keys : written[k] # <<>> => HasKey(entries, k)

\* the step of t is the lookup of a Get (or of a Do's fast path) on the TTL Store
TtlLookup(t) == kind = "ttl" /\ pc[t] = "get" /\ pc'[t] = "runlock"

\* C9: TTL Store: a Get reports found exactly when the key is in the map and
\* now is not greater than its expireAt; for a key last set to v at time t0
\* and not deleted since, it returns (v, true) before t0 + ttl and (zero,
\* false) after t0 + ttl.
C9_GetHonoursExpiry ==
    [][\A t \in DOMAIN pc :
          TtlLookup(t)
          => LET k == op[t].key
                 r == ret'[t]
             IN  /\ r.ok <=> (data[k] # NoEntry /\ now <= data[k][2])
                 /\ written[k] = <<>> => r = Result(Zero, FALSE)
                 /\ written[k] # <<>>
                    => /\ now < written[k][2] + ttl => r = Result(written[k][1], TRUE)
                       /\ now > written[k][2] + ttl => r = Result(Zero, FALSE)]_vars

\* a Get that missed a key set under a positive ttl and since expired
C9_Witness ==
    \E t \in DOMAIN pc :
        /\ kind = "ttl" /\ ttl > 0 /\ pc[t] = "runlock" /\ op[t].name = "Get"
        /\ ret[t].set /\ ~ret[t].ok /\ written[op[t].key] # <<>>

\* C10 as stated: TTL Store with ttl zero or negative: every Get of a key
\* that was set reports not-found, whatever the non-decreasing clock reads.
C10_NonPositiveTtlNeverFound ==
    [][\A t \in DOMAIN pc : (TtlLookup(t) /\ ttl <= 0) => ~ret'[t].ok]_vars

\* C10 amended: with a negative ttl every Get of a key that was set reports
\* not-found; with ttl zero it reports not-found once the clock reads later
\* than at the Set, and still returns the value while the clock reads the
\* same as at the Set.
C10_NonPositiveTtlExpiry ==
    [][\A t \in DOMAIN pc :
          (TtlLookup(t) /\ ttl <= 0 /\ written[op[t].key] # <<>>)
          => LET w == written[op[t].key]
             IN  /\ ttl < 0 => ret'[t] = Result(Zero, FALSE)
                 /\ (ttl = 0 /\ now > w[2]) => ret'[t] = Result(Zero, FALSE)
                 /\ (ttl = 0 /\ now = w[2]) => ret'[t] = Result(w[1], TRUE)]_vars

\* a Get that missed a key set under ttl zero, the clock having moved on
C10_Witness ==
    \E t \in DOMAIN pc :
        /\ kind = "ttl" /\ ttl = 0 /\ pc[t] = "runlock" /\ op[t].name = "Get"
        /\ ret[t].set /\ ~ret[t].ok
        /\ written[op[t].key] # <<>> /\ now > written[op[t].key][2]

\* the thread has called its producer and the producer has not returned yet
InProducer(t) == pc[t] \in {"fn", "infn"}

\* C11: both stores: while a Do's producer runs, its thread holds the
\* exclusive lock and no thread holds the shared one; every other thread is
\* idle or waits for the lock, and no step taken before the producer returns
\* starts a call, returns one, or reads or changes the list, the map or the
\* lock: the other calls take effect only after the producer has returned.
C11_ProducerHoldsExclusiveLock ==
    /\ [](\A t \in DOMAIN pc :
            InProducer(t)
            => /\ writer = t /\ readers = {}
               /\ \A u \in DOMAIN pc \ {t} : pc[u] \in {"idle", "lock"})
    /\ [][\A t \in DOMAIN pc :
            (InProducer(t) /\ pc'[t] = "infn")
            => /\ UNCHANGED <<entries, data, writer, readers, written, left, trace>>
               /\ \A u \in DOMAIN pc \ {t} : pc'[u] = pc[u] /\ ret'[u] = ret[u]]_vars

\* a producer runs for one key while a Do for another key waits for the lock
C11_Witness ==
    \E t, u \in DOMAIN pc :
        /\ pc[t] = "infn" /\ pc[u] = "lock"
        /\ op[u].key # op[t].key

\* what a lookup of k returns in this state
Lookup(k) ==
    IF kind = "lru"
    THEN [val |-> unsafeGet(entries, k).val, ok |-> unsafeGet(entries, k).ok]
    ELSE TtlUnsafeGet(data, k, now)
Found(v) == [val |-> v, ok |-> TRUE]

\* the links of the list form one ring through the root and all its elements
WellFormed(L) ==
    /\ \A s \in Slots :
          (s = Root \/ L.inl[s])
          => /\ L.next[s] \in Slots /\ L.prev[s] \in Slots
             /\ L.next[s] # Root => L.inl[L.next[s]]
             /\ L.prev[s] # Root => L.inl[L.prev[s]]
             /\ L.prev[L.next[s]] = s /\ L.next[L.prev[s]] = s
    /\ {n \in Nodes : L.inl[n]} = {Walk(L)[i] : i \in 1..Len(Walk(L))}

IsBatch(o) == o.name \in {"SetFromIter", "SetFromMap"}
\* the bulk set of t is inside its lock section / has applied all its pairs
InBatch(t) == pc[t] = "iter" \/ (pc[t] = "unlock" /\ IsBatch(op[t]))
BatchDone(t) == pc[t] = "unlock" /\ IsBatch(op[t])

\* the bulk set holds the exclusive lock from its first pair to its return,
\* the other threads are idle or wait for the lock and do not move
BatchAtomic ==
    /\ [](\A t \in DOMAIN pc :
            InBatch(t)
            => /\ writer = t /\ readers = {}
               /\ \A u \in DOMAIN pc \ {t} : pc[u] \in {"idle", "lock"})
    /\ [][\A t \in DOMAIN pc :
            pc[t] = "iter"
            => \A u \in DOMAIN pc \ {t} :
                  pc'[u] = pc[u] /\ ret'[u] = ret[u] /\ op'[u] = op[u]]_vars

Others(L, k) == SelectSeq(WalkPairs(L), LAMBDA p : p[1] # k)

\* C13: both stores: the body of Delete(k) ends, and when it does k is no
\* longer found, every other entry is as before (Recency Store: the other
\* keys front to back with their values; TTL Store: value and expireAt), and
\* when k had no entry the list and the map are unchanged.
C13_DeleteRemovesOnlyItsKey ==
    [][\A t \in DOMAIN pc :
          (pc[t] = "delete" /\ pc'[t] # "delete")
          => LET k == op[t].key
             IN  /\ pc'[t] = "unlock"
                 /\ ~Lookup(k)'.ok
                 /\ IF kind = "ttl"
                    THEN /\ data' = [data EXCEPT ![k] = NoEntry]
                         /\ data[k] = NoEntry => data' = data
                         /\ entries' = entries
                    ELSE /\ WalkPairs(entries') = Others(entries, k)
                         /\ ~HasKey(entries, k) => entries' = entries
                         /\ data' = data]_vars

\* the step of t calls its producer
CallsProducer(t) == pc[t] = "fn" /\ pc'[t] = "infn"

\* C14: both stores: when a Do calls its producer for k, a lookup of k
\* misses, and k was not written (by a Set, a bulk set or a producer that
\* succeeded) since it was last deleted, or, in the TTL Store, what was
\* written has expired: no second producer call without a Delete or an
\* expiry in between, none while k has a live entry.
C14_ProducerOncePerMissEpisode ==
    [][\A t \in DOMAIN pc :
          CallsProducer(t)
          => LET k == op[t].key
             IN  /\ ~Lookup(k).ok
                 /\ \/ written[k] = <<>>
                    \/ kind = "ttl" /\ now > written[k][2] + ttl]_vars

\* the step of t is a read of the TTL Store: Get's or Do's lookup, Do's second check
TtlRead(t) == kind = "ttl" /\ pc[t] \in {"get", "recheck"} /\ pc'[t] # pc[t]

\* the step of t writes the entry of k: the body of Set(k, v) or Delete(k), or
\* a Do for k storing what its producer returned
WritesKey(t, k) ==
    /\ writer = t /\ op[t].key = k
    /\ \/ pc[t] = "set"
       \/ pc[t] = "delete"
       \/ pc[t] = "infn" /\ ret'[t].ok

\* the step of t is the round of a bulk set that sets k
BulkSetsKey(t, k) == writer = t /\ pc[t] = "iter" /\ k \in op'[t].seen

\* reads and the clock leave the map as it is
ReadsKeepMap ==
    /\ \A t \in DOMAIN pc : TtlRead(t) => data' = data
    /\ now' # now => data' = data

\* C15 as stated: TTL Store: Get, the reads of Do and the passage of time
\* never change the map; an entry, expired or not, keeps its value and
\* expireAt until a Set, a Do store or a Delete on its key.
C15_EntryStaysUntilSetDoDelete ==
    [][/\ ReadsKeepMap
       /\ \A k \in DOMAIN data :
             data'[k] # data[k] => \E t \in DOMAIN pc : WritesKey(t, k)]_vars

\* C15 amended: as stated, with the bulk setters among the writers: an entry
\* keeps its value and expireAt until a Set, a pair of SetFromMap or
\* SetFromIter, a Do store or a Delete on its key.
C15_EntryStaysUntilWritten ==
    [][/\ ReadsKeepMap
       /\ \A k \in DOMAIN data :
             data'[k] # data[k]
             => \E t \in DOMAIN pc : WritesKey(t, k) \/ BulkSetsKey(t, k)]_vars

\* a Get has just missed an entry that is still in the map, expired
C15_Witness ==
    \E t \in DOMAIN pc :
        /\ kind = "ttl" /\ pc[t] = "runlock" /\ op[t].name = "Get"
        /\ ret[t].set /\ ~ret[t].ok
        /\ data[op[t].key] # NoEntry /\ now > data[op[t].key][2]

\* the step of t is the body of Set on the TTL Store
TtlSets(t) == kind = "ttl" /\ pc[t] = "set" /\ pc'[t] = "unlock"

\* C16: TTL Store: the body of Set(k, v) at clock time t leaves the entry of
\* k equal to (v, t + ttl) whatever the map held for k, and the other
\* entries as they were; with a positive ttl a lookup of k then finds v, and
\* keeps finding it as long as the clock does not pass t + ttl and k is not
\* written again.
C16_SetWritesFreshEntry ==
    /\ [][\A t \in DOMAIN pc :
            TtlSets(t)
            => LET k == op[t].key
                   v == op[t].val
               IN  /\ data' = [data EXCEPT ![k] = <<v, now + ttl>>]
                   /\ ttl > 0 => Lookup(k)' = Found(v)]_vars
    /\ [](kind = "ttl"
          => \A k \in DOMAIN data :
                written[k] # <<>>
                => /\ data[k] = <<written[k][1], written[k][2] + ttl>>
                   /\ now <= written[k][2] + ttl => Lookup(k) = Found(written[k][1]))

\* a Set under a positive ttl has just replaced an expired entry by a new
\* value, which a lookup finds again
C16_Witness ==
    \E t \in DOMAIN pc :
        /\ kind = "ttl" /\ ttl > 0
        /\ pc[t] = "unlock" /\ op[t].name = "Set" /\ op[t].e = WasExpired
        /\ Lookup(op[t].key) = Found(op[t].val)
        /\ data[op[t].key] = <<op[t].val, now + ttl>>

\* a Set has just restarted the window of a live entry
C16_WitnessLive ==
    \E t \in DOMAIN pc :
        /\ kind = "ttl" /\ ttl > 0 /\ now > 0
        /\ pc[t] = "unlock" /\ op[t].name = "Set" /\ op[t].e = WasLive
        /\ data[op[t].key] = <<op[t].val, now + ttl>>

\* no thread holds the shared and the exclusive lock together, and a Do that
\* waits for the exclusive lock has released the shared one
NeverBothLocks ==
    \A t \in DOMAIN pc :
        /\ ~(t \in readers /\ writer = t)
        /\ pc[t] = "lock" => t \notin readers

\* C17: both stores: Do never holds both locks, and under fair scheduling
\* and a fair lock every call that was started returns.
C17_EveryCallReturns ==
    /\ []NeverBothLocks
    /\ \A t \in Threads : (pc[t] # "idle") ~> (pc[t] = "idle")

\* Do's second check: a hit returns the cached value, a miss calls the producer
\* (or the scan of the list never ends)
DoSecondCheck(t) ==
    (pc[t] = "recheck" /\ pc'[t] # "recheck")
    => IF Lookup(op[t].key).ok
       THEN /\ pc'[t] = "unlock" /\ calls' = calls
            /\ ret'[t] = Result(Lookup(op[t].key).val, TRUE)
       ELSE pc'[t] \in {"fn", "hang"}

\* Do's first check: what it returns is what the store holds for the key, and
\* a hit makes the call return without the producer
DoFirstCheck(t) ==
    /\ (kind = "ttl" /\ pc[t] = "get" /\ pc'[t] = "runlock")
       => ret'[t] = Result(Lookup(op[t].key).val, Lookup(op[t].key).ok)
    /\ (kind = "lru" /\ pc[t] # "runlock" /\ pc'[t] = "runlock" /\ ret'[t].ok)
       => \E n \in Nodes : entries.key[n] = op[t].key /\ entries.val[n] = ret'[t].val
    /\ (pc[t] = "runlock" /\ ret[t].ok /\ pc'[t] # "runlock")
       => pc'[t] = "idle" /\ calls' = calls

\* Do's store: the value the producer returned is in the store, under the
\* exclusive lock still held, and it is what the call returns
DoStores(t) ==
    (pc[t] = "infn" /\ pc'[t] = "unlock" /\ ret'[t].ok)
    => /\ writer' = t
       /\ IF kind = "ttl"
          THEN data'[op[t].key] = <<ret'[t].val, now + ttl>>
          ELSE Lookup(op[t].key)' = Found(ret'[t].val)

\* C18: both stores: a Do that hits at its first or its second check returns
\* the cached value without calling the producer; the producer is called
\* only when both checks missed, and when it succeeds with v the call stores
\* v for the key before it releases the exclusive lock and returns v: a
\* lookup then finds v (TTL Store: the entry is (v, now + ttl)).
C18_DoReturnsCachedOrStores ==
    [][\A t \in DOMAIN pc :
          op[t].name = "Do"
          => /\ DoFirstCheck(t)
             /\ DoSecondCheck(t)
             /\ CallsProducer(t) => ~Lookup(op[t].key).ok
             /\ DoStores(t)]_vars

\* the step is the whole of unsafeGet(k) or unsafeSet(k, v) under the exclusive lock
HitsAtOnce(t) ==
    \/ pc[t] = "recheck" /\ pc'[t] = "unlock"
    \/ pc[t] = "set" /\ pc'[t] = "unlock" /\ HasKey(entries, op[t].key)

\* no other thread is between two assignments of a move
NoOtherMoves(t) ==
    \A u \in DOMAIN pc \ {t} : pc[u] \notin {"mv1", "mv2", "mv3", "mv4", "mv5", "mv6"}

\* C19: Recency Store: a Get(k) that misses leaves the list unchanged.  A
\* lookup that hits and a Set(k, v) on an existing key keep the set of keys,
\* the value of every other entry and the front-to-back order of the other
\* entries: a Get(k) that moved k's element, no other move being under way,
\* returns with the list holding the entries it held when the element was
\* found, and a hit or a Set made in one step under the exclusive lock leaves
\* the other entries in their order.
C19_GetAndSetMoveOnlyTheirKey ==
    [][kind = "lru" =>
       \A t \in DOMAIN pc :
          /\ (pc[t] = "find" /\ pc'[t] = "runlock" /\ ~ret'[t].ok) => entries' = entries
          /\ (pc[t] = "mv6" /\ pc'[t] = "runlock" /\ NoOtherMoves(t))
             => Pairs(entries') = op[t].had
          /\ HitsAtOnce(t)
             => /\ Others(entries', op[t].key) = Others(entries, op[t].key)
                /\ HasKey(entries', op[t].key)
                /\ Len(Walk(entries')) = Len(Walk(entries))]_vars

\* the call waits for a lock
Waiting(u) == pc[u] \in {"rlock", "wlock", "lock"}
\* the producer of t's Do has called the store and waits for the lock that the
\* Do holds
SelfBlocked(t) == pc[t] \in {"rlock", "wlock"} /\ writer = t

\* C20: both stores: once the producer of a Do has called Get, Set, Delete, a
\* bulk setter or Do on the same store, it waits for the lock ever after and
\* its Do does not return; every other thread is idle or waits for the lock,
\* a call made from then on waits as well, and no call returns.
C20_ReentrantProducerBlocksStore ==
    [][\A t \in DOMAIN pc :
          SelfBlocked(t)
          => /\ pc'[t] = pc[t] /\ writer' = t /\ readers' = {}
             /\ \A u \in DOMAIN pc :
                   /\ Waiting(u) => pc'[u] = pc[u]
                   /\ pc[u] # "idle" => pc'[u] # "idle"
                   /\ u # t => (Waiting(u) \/ pc[u] = "idle")
                   /\ pc'[u] \in {"idle", "rlock", "wlock", "lock"}]_vars

\* a producer waits for the lock of its own Do, and a call made after that
\* waits with it
C20_Witness ==
    \E t, u \in DOMAIN pc :
        /\ SelfBlocked(t)
        /\ u # t /\ pc[u] \in {"rlock", "wlock"} /\ writer # u
        /\ left = 0
====
